---- MODULE Spec2Model ----
(***************************************************************************)
(* Access control of the project / board / task REST API.                  *)
(*                                                                         *)
(* The store is the four tables of shared/schema.ts that the routes of     *)
(* server/routes.ts read and write through server/storage.ts.  Every route *)
(* is one operator that returns the HTTP status, the number of storage     *)
(* calls made and the tables after the request; one action per route       *)
(* applies it.  The guards imported from ./auth-middleware are not part of *)
(* the available sources: they follow section 4.1 of the design spec.      *)
(***************************************************************************)
EXTENDS Integers, Sequences, FiniteSets, TLC

VARIABLES projects, boards, tasks, members,   \* the four tables the routes use
          users, started,                     \* the users table, the server process
          inflight, reply,                    \* an update request between check and write
          draggedTask, kanbanTasks, pending   \* the Kanban board component

vars == <<projects, boards, tasks, members, users, started, inflight, reply,
          draggedTask, kanbanTasks, pending>>

accountVars == <<users, started>>

raceVars == <<inflight, reply>>

kanbanVars == <<draggedTask, kanbanTasks, pending>>

\* ---------------------------------------------------------------- bounds
NumProjects == 2
NumBoards == 2
NumTasks == 1
MaxMembers == 2
MaxRows == 4
MaxFailAt == 1
MaxAccounts == 4

ProjectIds == 1..NumProjects
BoardIds == 1..NumBoards
TaskIds == 1..NumTasks

\* ------------------------------------------------------------- the users
\* The accounts of the users table; D is the bootstrap admin.
Users == {"A", "B", "C", "D"}

NoUser == "anonymous"

Callers == Users \cup {NoUser}

globalRole == [u \in Users |->
                 CASE u = "D" -> "admin"
                   [] u = "C" -> "manager"
                   [] OTHER -> "user"]

MemberRoles == {"owner", "manager", "member"}

Null == "null"

\* A field of a request body: {} when the body does not carry it.
Has(f) == f # {}

Val(f) == CHOOSE x \in f : TRUE

IsAdmin(u) == globalRole[u] = "admin"

\* { ...a, ...b }: the keys of both objects, b's value where both have the key
Spread(a, b) ==
  [k \in DOMAIN a \cup DOMAIN b |-> IF k \in DOMAIN b THEN b[k] ELSE a[k]]

\* ------------------------------------------------------------ the storage
HasProject(id) == id \in DOMAIN projects

HasBoard(id) == id \in DOMAIN boards

HasTask(id) == id \in DOMAIN tasks

Restrict(f, S) == [x \in S |-> f[x]]

\* storage.getProjectMembers: the rows of one project, in table order
getProjectMembers(pid) == SelectSeq(members, LAMBDA m : m.projectId = pid)

\* members.find(member => member.userId === req.user.id): the first row
FindMember(rows, u) ==
  LET hits == SelectSeq(rows, LAMBDA m : m.userId = u)
  IN  IF hits = <<>> THEN {} ELSE {Head(hits)}

\* The elements of a set of ids as a sequence, highest first.
RECURSIVE Descending(_)
Descending(S) ==
  IF S = {} THEN <<>>
  ELSE LET top == CHOOSE x \in S : \A y \in S : y <= x
       IN  <<top>> \o Descending(S \ {top})

\* n copies of x
RECURSIVE Copies(_, _)
Copies(x, n) == IF n = 0 THEN <<>> ELSE <<x>> \o Copies(x, n - 1)

\* The rows of a join, project by project: rowsFor[p] rows for project ps[i].
RECURSIVE JoinRows(_, _)
JoinRows(ps, rowsFor) ==
  IF ps = <<>> THEN <<>>
  ELSE Copies(Head(ps), rowsFor[Head(ps)]) \o JoinRows(Tail(ps), rowsFor)

\* Array.from(new Map(all.map(p => [p.id, p])).values()): one entry per id,
\* in the order the ids first appear
RECURSIVE UniqueById(_)
UniqueById(all) ==
  IF all = <<>> THEN <<>>
  ELSE LET rest == UniqueById(SelectSeq(Tail(all), LAMBDA p : p # Head(all)))
       IN  <<Head(all)>> \o rest

\* projects left join project_members where projects.owner_id = userId: a row
\* per membership row of an owned project, one row when it has none
userProjects(userId) ==
  JoinRows(Descending({p \in DOMAIN projects : projects[p].ownerId = userId}),
           [p \in DOMAIN projects |->
              IF getProjectMembers(p) = <<>> THEN 1 ELSE Len(getProjectMembers(p))])

\* project_members inner join projects where project_members.user_id = userId:
\* a row per membership row of the user
memberProjects(userId) ==
  JoinRows(Descending(DOMAIN projects),
           [p \in DOMAIN projects |->
              Len(SelectSeq(getProjectMembers(p), LAMBDA m : m.userId = userId))])

\* The list without the deduplication step.
getProjects_NoDedupe(userId) == userProjects(userId) \o memberProjects(userId)

\* The list of the owned projects alone.
getProjects_OwnedOnly(userId) == UniqueById(userProjects(userId))

\* storage.getProjects: the ids of the projects returned, in order
getProjects(userId) ==
  LET allProjects == userProjects(userId) \o memberProjects(userId)
      uniqueProjects == UniqueById(allProjects)
  IN  uniqueProjects

\* The tables as one record, as a storage call leaves them.
Store(p, b, t, m) == [projects |-> p, boards |-> b, tasks |-> t, members |-> m]

Same == Store(projects, boards, tasks, members)

\* boards.projectId and tasks.boardId: onDelete cascade
BoardsOf(P) == {b \in DOMAIN boards : boards[b].projectId \in P}

TasksOf(B) == {t \in DOMAIN tasks : tasks[t].boardId \in B}

\* A project delete whose cascade stops at the project's boards.
deleteProject_BoardsOnly(id) ==
  Store(Restrict(projects, DOMAIN projects \ {id}),
        Restrict(boards, DOMAIN boards \ BoardsOf({id})),
        tasks,
        members)

deleteProject(id) ==
  LET keptB == DOMAIN boards \ BoardsOf({id})
      keptT == DOMAIN tasks \ TasksOf(BoardsOf({id}))
  IN  Store(Restrict(projects, DOMAIN projects \ {id}),
            Restrict(boards, keptB),
            Restrict(tasks, keptT),
            SelectSeq(members, LAMBDA m : m.projectId # id))

deleteBoard(id) ==
  Store(projects,
        Restrict(boards, DOMAIN boards \ {id}),
        Restrict(tasks, DOMAIN tasks \ TasksOf({id})),
        members)

deleteTask(id) ==
  Store(projects, boards, Restrict(tasks, DOMAIN tasks \ {id}), members)

createProject(id, row) ==
  Store([x \in DOMAIN projects \cup {id} |-> IF x = id THEN row ELSE projects[x]],
        boards, tasks, members)

createBoard(id, row) ==
  Store(projects,
        [x \in DOMAIN boards \cup {id} |-> IF x = id THEN row ELSE boards[x]],
        tasks, members)

createTask(id, row) ==
  Store(projects, boards,
        [x \in DOMAIN tasks \cup {id} |-> IF x = id THEN row ELSE tasks[x]],
        members)

\* update ... set(body) where id = ...: only the fields the body carries
updateProject(id, body) ==
  Store([projects EXCEPT ![id] =
           [ownerId |-> IF Has(body.ownerId) THEN Val(body.ownerId) ELSE @.ownerId]],
        boards, tasks, members)

\* An update written as insert ... on conflict do update: a missing board
\* is stored again when the body names its project.
updateBoard_Upsert(id, body) ==
  Store(projects,
        IF HasBoard(id)
        THEN [boards EXCEPT ![id] =
                [projectId |-> IF Has(body.projectId) THEN Val(body.projectId)
                               ELSE @.projectId]]
        ELSE IF Has(body.projectId)
             THEN (id :> [projectId |-> Val(body.projectId)]) @@ boards
             ELSE boards,
        tasks, members)

updateBoard(id, body) ==
  Store(projects,
        [boards EXCEPT ![id] =
           [projectId |-> IF Has(body.projectId) THEN Val(body.projectId) ELSE @.projectId]],
        tasks, members)

updateTask(id, body) ==
  Store(projects, boards,
        [tasks EXCEPT ![id] =
           [boardId |-> IF Has(body.boardId) THEN Val(body.boardId) ELSE @.boardId,
            createdById |-> IF Has(body.createdById) THEN Val(body.createdById)
                            ELSE @.createdById,
            assigneeId |-> IF Has(body.assigneeId) THEN Val(body.assigneeId)
                           ELSE @.assigneeId]],
        members)

addProjectMember(row) == Store(projects, boards, tasks, Append(members, row))

\* A removal that deletes the first matching row only.
removeProjectMember_FirstOnly(pid, uid) ==
  LET hit == CHOOSE i \in 1..(Len(members) + 1) :
               /\ i <= Len(members) => (members[i].projectId = pid /\ members[i].userId = uid)
               /\ \A j \in 1..(i - 1) :
                    ~(members[j].projectId = pid /\ members[j].userId = uid)
  IN  Store(projects, boards, tasks,
            SubSeq(members, 1, hit - 1) \o SubSeq(members, hit + 1, Len(members)))

removeProjectMember(pid, uid) ==
  Store(projects, boards, tasks,
        SelectSeq(members, LAMBDA m : ~(m.projectId = pid /\ m.userId = uid)))

\* The foreign keys and NOT NULL columns of the schema: a violating insert
\* or update throws.
ProjectRefsOk(body) == Has(body.ownerId) => Val(body.ownerId) \in Users

BoardRefsOk(body) == Has(body.projectId) => HasProject(Val(body.projectId))

TaskRefsOk(body) ==
  /\ Has(body.boardId) => HasBoard(Val(body.boardId))
  /\ Has(body.createdById) => Val(body.createdById) \in Users
  /\ Has(body.assigneeId) => Val(body.assigneeId) \in Users \cup {Null}

MemberRefsOk(body) == Has(body.userId) /\ Val(body.userId) \in Users

\* ---------------------------------------------------- responses and guards
\* What a request ends in: the status sent, the storage calls made, the tables.
Resp(status, calls, store) == [status |-> status, calls |-> calls, store |-> store]

\* What a guard ends in: next() called, or a status sent.
Pass(calls) == [next |-> TRUE, status |-> 200, calls |-> calls]

Stop(status, calls) == [next |-> FALSE, status |-> status, calls |-> calls]

\* In every guard and handler, f is the storage call of the request that
\* throws (0: none does) and c the number of storage calls made before it.

requireAuth(u) == IF u = NoUser THEN Stop(401, 0) ELSE Pass(0)

requireProjectCreateAccess(u, c) ==
  IF globalRole[u] \in {"admin", "manager", "user"} THEN Pass(c) ELSE Stop(403, c)

\* Steps 3 to 5 of the resolution procedure, for a project that exists;
\* roles are the membership roles that pass.
MembershipGate(u, pid, f, c, roles) ==
  IF IsAdmin(u) THEN Pass(c)
  ELSE IF projects[pid].ownerId = u THEN Pass(c)
  ELSE IF f = c + 1 THEN Stop(500, c + 1)
  ELSE LET row == FindMember(getProjectMembers(pid), u)
       IN  IF row = {} THEN Stop(403, c + 1)
           ELSE IF Val(row).role \in roles THEN Pass(c + 1)
           ELSE Stop(403, c + 1)

AnyRow == MemberRoles

ManagerRow == {"owner", "manager"}

requireProjectAccess(u, pid, f, c) ==
  IF f = c + 1 THEN Stop(500, c + 1)
  ELSE IF ~HasProject(pid) THEN Stop(404, c + 1)
  ELSE MembershipGate(u, pid, f, c + 1, AnyRow)

requireProjectMembershipForCreation(u, pid, f, c) ==
  IF f = c + 1 THEN Stop(500, c + 1)
  ELSE IF ~HasProject(pid) THEN Stop(404, c + 1)
  ELSE MembershipGate(u, pid, f, c + 1, AnyRow)

requireBoardAccess(u, bid, f, c) ==
  IF f = c + 1 THEN Stop(500, c + 1)
  ELSE IF ~HasBoard(bid) THEN Stop(404, c + 1)
  ELSE IF f = c + 2 THEN Stop(500, c + 2)
  ELSE IF ~HasProject(boards[bid].projectId) THEN Stop(404, c + 2)
  ELSE MembershipGate(u, boards[bid].projectId, f, c + 2, AnyRow)

requireTaskModifyAccess(u, tid, f, c) ==
  IF f = c + 1 THEN Stop(500, c + 1)
  ELSE IF ~HasTask(tid) THEN Stop(404, c + 1)
  ELSE IF f = c + 2 THEN Stop(500, c + 2)
  ELSE IF ~HasBoard(tasks[tid].boardId) THEN Stop(404, c + 2)
  ELSE IF f = c + 3 THEN Stop(500, c + 3)
  ELSE IF ~HasProject(boards[tasks[tid].boardId].projectId) THEN Stop(404, c + 3)
  ELSE IF IsAdmin(u) THEN Pass(c + 3)
  ELSE IF projects[boards[tasks[tid].boardId].projectId].ownerId = u THEN Pass(c + 3)
  ELSE IF tasks[tid].createdById = u \/ tasks[tid].assigneeId = u THEN Pass(c + 3)
  ELSE MembershipGate(u, boards[tasks[tid].boardId].projectId, f, c + 3, ManagerRow)

\* A route: requireAuth, then the route's guard, then its handler.
Guarded(u, guard, handled) ==
  IF ~requireAuth(u).next THEN Resp(requireAuth(u).status, 0, Same)
  ELSE IF ~guard.next THEN Resp(guard.status, guard.calls, Same)
  ELSE handled

\* ------------------------------------------------------------- the routes
\* GET /api/projects
GetProjectsHandler(u, f, c) ==
  IF f = c + 1 THEN Resp(500, c + 1, Same) ELSE Resp(200, c + 1, Same)

\* The list route mounted without requireAuth.
GetProjects_NoAuth(u, f) == GetProjectsHandler(u, f, 0)

GetProjects(u, f) == Guarded(u, Pass(0), GetProjectsHandler(u, f, 0))

\* POST /api/projects: the new row's id is the one the database generates
PostProjectHandler(u, body, id, f, c) ==
  IF ~body.valid THEN Resp(400, c, Same)
  ELSE IF f = c + 1 THEN Resp(400, c + 1, Same)
  ELSE LET validatedData == Spread(body, [ownerId |-> u])
       IN  Resp(201, c + 1, createProject(id, [ownerId |-> validatedData.ownerId]))

\* The project creation route open to the admin and manager global roles only.
PostProject_ManagersOnly(u, body, id, f) ==
  Guarded(u,
          IF globalRole[u] \in {"admin", "manager"} THEN Pass(0) ELSE Stop(403, 0),
          PostProjectHandler(u, body, id, f, 0))

PostProject(u, body, id, f) ==
  Guarded(u, requireProjectCreateAccess(u, 0),
          PostProjectHandler(u, body, id, f, requireProjectCreateAccess(u, 0).calls))

\* GET /api/projects/:id
GetProjectHandler(u, id, f, c) ==
  IF f = c + 1 THEN Resp(500, c + 1, Same)
  ELSE IF ~HasProject(id) THEN Resp(404, c + 1, Same)
  ELSE Resp(200, c + 1, Same)

GetProject(u, id, f) ==
  Guarded(u, requireProjectAccess(u, id, f, 0),
          GetProjectHandler(u, id, f, requireProjectAccess(u, id, f, 0).calls))

\* The update handler without its owner-or-admin check.
PatchProjectHandler_NoOwnerCheck(u, id, body, f, c) ==
  IF f = c + 1 THEN Resp(500, c + 1, Same)
  ELSE IF ~HasProject(id) THEN Resp(404, c + 1, Same)
  ELSE IF f = c + 2 \/ ~ProjectRefsOk(body) THEN Resp(500, c + 2, Same)
  ELSE Resp(200, c + 2, updateProject(id, body))

\* PATCH /api/projects/:id
PatchProjectHandler(u, id, body, f, c) ==
  IF f = c + 1 THEN Resp(500, c + 1, Same)
  ELSE IF ~HasProject(id) THEN Resp(404, c + 1, Same)
  ELSE IF projects[id].ownerId # u /\ globalRole[u] # "admin" THEN Resp(403, c + 1, Same)
  ELSE IF f = c + 2 \/ ~ProjectRefsOk(body) THEN Resp(500, c + 2, Same)
  ELSE Resp(200, c + 2, updateProject(id, body))

PatchProject(u, id, body, f) ==
  Guarded(u, requireProjectAccess(u, id, f, 0),
          PatchProjectHandler(u, id, body, f, requireProjectAccess(u, id, f, 0).calls))

\* The delete handler that also lets owner-role and manager-role members through.
DeleteProjectHandler_ManagersToo(u, id, f, c) ==
  IF f = c + 1 THEN Resp(500, c + 1, Same)
  ELSE IF ~HasProject(id) THEN Resp(404, c + 1, Same)
  ELSE IF /\ projects[id].ownerId # u
          /\ globalRole[u] # "admin"
          /\ \/ FindMember(getProjectMembers(id), u) = {}
             \/ Val(FindMember(getProjectMembers(id), u)).role = "member"
       THEN Resp(403, c + 1, Same)
  ELSE IF f = c + 2 THEN Resp(500, c + 2, Same)
  ELSE Resp(204, c + 2, deleteProject(id))

\* DELETE /api/projects/:id
DeleteProjectHandler(u, id, f, c) ==
  IF f = c + 1 THEN Resp(500, c + 1, Same)
  ELSE IF ~HasProject(id) THEN Resp(404, c + 1, Same)
  ELSE IF projects[id].ownerId # u /\ globalRole[u] # "admin" THEN Resp(403, c + 1, Same)
  ELSE IF f = c + 2 THEN Resp(500, c + 2, Same)
  ELSE Resp(204, c + 2, deleteProject(id))

DeleteProject(u, id, f) ==
  Guarded(u, requireProjectAccess(u, id, f, 0),
          DeleteProjectHandler(u, id, f, requireProjectAccess(u, id, f, 0).calls))

\* GET /api/projects/:projectId/boards
GetBoardsHandler(u, pid, f, c) ==
  IF f = c + 1 THEN Resp(500, c + 1, Same) ELSE Resp(200, c + 1, Same)

GetBoards(u, pid, f) ==
  Guarded(u, requireProjectAccess(u, pid, f, 0),
          GetBoardsHandler(u, pid, f, requireProjectAccess(u, pid, f, 0).calls))

\* POST /api/projects/:projectId/boards
PostBoardHandler(u, pid, body, id, f, c) ==
  IF ~body.valid THEN Resp(400, c, Same)
  ELSE IF f = c + 1 \/ ~HasProject(pid) THEN Resp(400, c + 1, Same)
  ELSE LET validatedData == Spread(body, [projectId |-> pid])
       IN  Resp(201, c + 1, createBoard(id, [projectId |-> validatedData.projectId]))

\* The board creation route mounted without its membership guard.
PostBoard_NoGuard(u, pid, body, id, f) ==
  Guarded(u, Pass(0), PostBoardHandler(u, pid, body, id, f, 0))

PostBoard(u, pid, body, id, f) ==
  Guarded(u, requireProjectMembershipForCreation(u, pid, f, 0),
          PostBoardHandler(u, pid, body, id, f, requireProjectMembershipForCreation(u, pid, f, 0).calls))

\* The inline check without the admin exemption.
BoardManageCheck_NoAdmin(u, bid, f, c) ==
  IF projects[boards[bid].projectId].ownerId # u
  THEN IF f = c + 1 THEN Stop(500, c + 1)
       ELSE LET memberInfo == FindMember(getProjectMembers(boards[bid].projectId), u)
            IN  IF memberInfo = {}
                   \/ (Val(memberInfo).role # "manager" /\ Val(memberInfo).role # "owner")
                THEN Stop(403, c + 1)
                ELSE Pass(c + 1)
  ELSE Pass(c)

\* The inline check letting every membership row through.
BoardManageCheck_AnyRow(u, bid, f, c) ==
  IF projects[boards[bid].projectId].ownerId # u /\ globalRole[u] # "admin"
  THEN IF f = c + 1 THEN Stop(500, c + 1)
       ELSE LET memberInfo == FindMember(getProjectMembers(boards[bid].projectId), u)
            IN  IF memberInfo = {} THEN Stop(403, c + 1) ELSE Pass(c + 1)
  ELSE Pass(c)

\* The inline check of the board update and delete handlers (routes.ts 139-146
\* and 172-179): the calls it makes and whether it lets the caller through.
BoardManageCheck(u, bid, f, c) ==
  IF projects[boards[bid].projectId].ownerId # u /\ globalRole[u] # "admin"
  THEN IF f = c + 1 THEN Stop(500, c + 1)
       ELSE LET memberInfo == FindMember(getProjectMembers(boards[bid].projectId), u)
            IN  IF memberInfo = {}
                   \/ (Val(memberInfo).role # "manager" /\ Val(memberInfo).role # "owner")
                THEN Stop(403, c + 1)
                ELSE Pass(c + 1)
  ELSE Pass(c)

\* The board update against a table whose projectId is not a foreign key.
PatchBoardHandler_NoForeignKey(u, id, body, f, c) ==
  IF f = c + 1 THEN Resp(500, c + 1, Same)
  ELSE IF ~HasBoard(id) THEN Resp(404, c + 1, Same)
  ELSE IF f = c + 2 THEN Resp(500, c + 2, Same)
  ELSE IF ~HasProject(boards[id].projectId) THEN Resp(404, c + 2, Same)
  ELSE LET chk == BoardManageCheck(u, id, f, c + 2)
       IN  IF ~chk.next THEN Resp(chk.status, chk.calls, Same)
           ELSE IF f = chk.calls + 1 THEN Resp(500, chk.calls + 1, Same)
           ELSE Resp(200, chk.calls + 1, updateBoard(id, body))

\* PATCH /api/boards/:id
PatchBoardHandler(u, id, body, f, c) ==
  IF f = c + 1 THEN Resp(500, c + 1, Same)
  ELSE IF ~HasBoard(id) THEN Resp(404, c + 1, Same)
  ELSE IF f = c + 2 THEN Resp(500, c + 2, Same)
  ELSE IF ~HasProject(boards[id].projectId) THEN Resp(404, c + 2, Same)
  ELSE LET chk == BoardManageCheck(u, id, f, c + 2)
       IN  IF ~chk.next THEN Resp(chk.status, chk.calls, Same)
           ELSE IF f = chk.calls + 1 \/ ~BoardRefsOk(body)
                THEN Resp(500, chk.calls + 1, Same)
           ELSE Resp(200, chk.calls + 1, updateBoard(id, body))

PatchBoard(u, id, body, f) ==
  Guarded(u, requireBoardAccess(u, id, f, 0),
          PatchBoardHandler(u, id, body, f, requireBoardAccess(u, id, f, 0).calls))

\* DELETE /api/boards/:id
DeleteBoardHandler(u, id, f, c) ==
  IF f = c + 1 THEN Resp(500, c + 1, Same)
  ELSE IF ~HasBoard(id) THEN Resp(404, c + 1, Same)
  ELSE IF f = c + 2 THEN Resp(500, c + 2, Same)
  ELSE IF ~HasProject(boards[id].projectId) THEN Resp(404, c + 2, Same)
  ELSE LET chk == BoardManageCheck(u, id, f, c + 2)
       IN  IF ~chk.next THEN Resp(chk.status, chk.calls, Same)
           ELSE IF f = chk.calls + 1 THEN Resp(500, chk.calls + 1, Same)
           ELSE Resp(204, chk.calls + 1, deleteBoard(id))

DeleteBoard(u, id, f) ==
  Guarded(u, requireBoardAccess(u, id, f, 0),
          DeleteBoardHandler(u, id, f, requireBoardAccess(u, id, f, 0).calls))

\* GET /api/boards/:boardId/tasks
GetTasksHandler(u, bid, f, c) ==
  IF f = c + 1 THEN Resp(500, c + 1, Same) ELSE Resp(200, c + 1, Same)

GetTasks(u, bid, f) ==
  Guarded(u, requireBoardAccess(u, bid, f, 0),
          GetTasksHandler(u, bid, f, requireBoardAccess(u, bid, f, 0).calls))

\* The task creation handler with the body spread after the path and the
\* caller: { boardId, createdById, ...req.body }.
PostTaskHandler_BodyLast(u, bid, body, id, f, c) ==
  IF ~body.valid THEN Resp(400, c, Same)
  ELSE LET validatedData == Spread([boardId |-> bid, createdById |-> u], body)
       IN  IF f = c + 1 \/ ~HasBoard(validatedData.boardId)
              \/ validatedData.assigneeId \notin Users \cup {Null}
           THEN Resp(400, c + 1, Same)
           ELSE Resp(201, c + 1,
                     createTask(id, [boardId |-> validatedData.boardId,
                                     createdById |-> validatedData.createdById,
                                     assigneeId |-> validatedData.assigneeId]))

\* POST /api/boards/:boardId/tasks
PostTaskHandler(u, bid, body, id, f, c) ==
  IF ~body.valid THEN Resp(400, c, Same)
  ELSE LET validatedData == Spread(body, [boardId |-> bid, createdById |-> u])
       IN  IF f = c + 1 \/ ~HasBoard(validatedData.boardId)
              \/ validatedData.assigneeId \notin Users \cup {Null}
           THEN Resp(400, c + 1, Same)
           ELSE Resp(201, c + 1,
                     createTask(id, [boardId |-> validatedData.boardId,
                                     createdById |-> validatedData.createdById,
                                     assigneeId |-> validatedData.assigneeId]))

PostTask(u, bid, body, id, f) ==
  Guarded(u, requireBoardAccess(u, bid, f, 0),
          PostTaskHandler(u, bid, body, id, f, requireBoardAccess(u, bid, f, 0).calls))

\* PATCH /api/tasks/:id
PatchTaskHandler(u, id, body, f, c) ==
  IF f = c + 1 \/ (HasTask(id) /\ ~TaskRefsOk(body)) THEN Resp(500, c + 1, Same)
  ELSE IF ~HasTask(id) THEN Resp(404, c + 1, Same)
  ELSE Resp(200, c + 1, updateTask(id, body))

\* The update route mounted without requireTaskModifyAccess.
PatchTask_NoGuard(u, id, body, f) ==
  Guarded(u, Pass(0), PatchTaskHandler(u, id, body, f, 0))

\* The update route mounted with the read guard of the task's board.
PatchTask_ReadGuard(u, id, body, f) ==
  LET guard == IF HasTask(id) THEN requireBoardAccess(u, tasks[id].boardId, f, 1)
               ELSE Stop(404, 1)
  IN  Guarded(u, guard, PatchTaskHandler(u, id, body, f, guard.calls))

PatchTask(u, id, body, f) ==
  Guarded(u, requireTaskModifyAccess(u, id, f, 0),
          PatchTaskHandler(u, id, body, f, requireTaskModifyAccess(u, id, f, 0).calls))

\* DELETE /api/tasks/:id
DeleteTaskHandler(u, id, f, c) ==
  IF f = c + 1 THEN Resp(500, c + 1, Same)
  ELSE Resp(204, c + 1, deleteTask(id))

\* The delete route mounted without requireTaskModifyAccess.
DeleteTask_NoGuard(u, id, f) ==
  Guarded(u, Pass(0), DeleteTaskHandler(u, id, f, 0))

\* The delete route mounted with the read guard of the task's board.
DeleteTask_ReadGuard(u, id, f) ==
  LET guard == IF HasTask(id) THEN requireBoardAccess(u, tasks[id].boardId, f, 1)
               ELSE Stop(404, 1)
  IN  Guarded(u, guard, DeleteTaskHandler(u, id, f, guard.calls))

DeleteTask(u, id, f) ==
  Guarded(u, requireTaskModifyAccess(u, id, f, 0),
          DeleteTaskHandler(u, id, f, requireTaskModifyAccess(u, id, f, 0).calls))

\* GET /api/projects/:id/members
GetMembersHandler(u, pid, f, c) ==
  IF f = c + 1 THEN Resp(500, c + 1, Same) ELSE Resp(200, c + 1, Same)

GetMembers(u, pid, f) ==
  Guarded(u, requireProjectAccess(u, pid, f, 0),
          GetMembersHandler(u, pid, f, requireProjectAccess(u, pid, f, 0).calls))

\* The add-member handler with the existence check folded into the owner
\* check (project?.ownerId !== req.user.id).
PostMemberHandler_OwnerFirst(u, pid, body, f, c) ==
  IF f = c + 1 THEN Resp(500, c + 1, Same)
  ELSE IF (~HasProject(pid) \/ projects[pid].ownerId # u) /\ globalRole[u] # "admin"
       THEN Resp(403, c + 1, Same)
  ELSE IF ~HasProject(pid) THEN Resp(404, c + 1, Same)
  ELSE IF f = c + 2 \/ ~MemberRefsOk(body) THEN Resp(500, c + 2, Same)
  ELSE Resp(201, c + 2,
            addProjectMember([projectId |-> pid, userId |-> Val(body.userId),
                              role |-> IF Has(body.role) THEN Val(body.role)
                                       ELSE "member"]))

\* The add-member handler inserting the row before it looks at the caller.
PostMemberHandler_WriteFirst(u, pid, body, f, c) ==
  IF f = c + 1 THEN Resp(500, c + 1, Same)
  ELSE IF ~HasProject(pid) THEN Resp(404, c + 1, Same)
  ELSE IF f = c + 2 \/ ~MemberRefsOk(body) THEN Resp(500, c + 2, Same)
  ELSE Resp(IF projects[pid].ownerId # u /\ globalRole[u] # "admin" THEN 403 ELSE 201,
            c + 2,
            addProjectMember([projectId |-> pid, userId |-> Val(body.userId),
                              role |-> IF Has(body.role) THEN Val(body.role)
                                       ELSE "member"]))

\* The add-member handler letting any user add a row for themself.
PostMemberHandler_SelfJoin(u, pid, body, f, c) ==
  IF f = c + 1 THEN Resp(500, c + 1, Same)
  ELSE IF ~HasProject(pid) THEN Resp(404, c + 1, Same)
  ELSE IF /\ projects[pid].ownerId # u /\ globalRole[u] # "admin"
          /\ body.userId # {u}
       THEN Resp(403, c + 1, Same)
  ELSE IF f = c + 2 \/ ~MemberRefsOk(body) THEN Resp(500, c + 2, Same)
  ELSE Resp(201, c + 2,
            addProjectMember([projectId |-> pid, userId |-> Val(body.userId),
                              role |-> IF Has(body.role) THEN Val(body.role)
                                       ELSE "member"]))

\* POST /api/projects/:id/members
PostMemberHandler(u, pid, body, f, c) ==
  IF f = c + 1 THEN Resp(500, c + 1, Same)
  ELSE IF ~HasProject(pid) THEN Resp(404, c + 1, Same)
  ELSE IF projects[pid].ownerId # u /\ globalRole[u] # "admin" THEN Resp(403, c + 1, Same)
  ELSE IF f = c + 2 \/ ~MemberRefsOk(body) THEN Resp(500, c + 2, Same)
  ELSE Resp(201, c + 2,
            addProjectMember([projectId |-> pid, userId |-> Val(body.userId),
                              role |-> IF Has(body.role) THEN Val(body.role)
                                       ELSE "member"]))

PostMember(u, pid, body, f) ==
  Guarded(u, Pass(0), PostMemberHandler(u, pid, body, f, 0))

\* The remove-member handler letting owner-role and manager-role members in.
DeleteMemberHandler_ManagersToo(u, pid, uid, f, c) ==
  IF f = c + 1 THEN Resp(500, c + 1, Same)
  ELSE IF ~HasProject(pid) THEN Resp(404, c + 1, Same)
  ELSE IF /\ projects[pid].ownerId # u /\ globalRole[u] # "admin"
          /\ \A i \in 1..Len(getProjectMembers(pid)) :
               getProjectMembers(pid)[i].userId = u
                 => getProjectMembers(pid)[i].role = "member"
       THEN Resp(403, c + 1, Same)
  ELSE IF f = c + 2 THEN Resp(500, c + 2, Same)
  ELSE Resp(204, c + 2, removeProjectMember(pid, uid))

\* DELETE /api/projects/:projectId/members/:userId
DeleteMemberHandler(u, pid, uid, f, c) ==
  IF f = c + 1 THEN Resp(500, c + 1, Same)
  ELSE IF ~HasProject(pid) THEN Resp(404, c + 1, Same)
  ELSE IF projects[pid].ownerId # u /\ globalRole[u] # "admin" THEN Resp(403, c + 1, Same)
  ELSE IF f = c + 2 THEN Resp(500, c + 2, Same)
  ELSE Resp(204, c + 2, removeProjectMember(pid, uid))

DeleteMember(u, pid, uid, f) ==
  Guarded(u, Pass(0), DeleteMemberHandler(u, pid, uid, f, 0))

\* ------------------------------------------------------------ the accounts
\* The users table holds one row per account; users.email is unique.
adminEmail == "axelencore@mail.ru"

Emails == {adminEmail, "a@x", "b@x", "c@x"}

GlobalRoles == {"admin", "manager", "user"}

\* storage.getUserByEmail: the first row with the email, {} when there is none
getUserByEmail(email) ==
  LET hits == SelectSeq(users, LAMBDA a : a.email = email)
  IN  IF hits = <<>> THEN {} ELSE {Head(hits)}

\* storage.createUser: the insert, which the unique email lets through or not
createUser(row) ==
  IF getUserByEmail(row.email) # {} THEN users ELSE Append(users, row)

\* A bootstrap that inserts the admin account without looking for it; the
\* table takes the row as one without a unique email would.
initializeAdmin_NoLookup == Append(users, [email |-> adminEmail, role |-> "admin"])

\* storage.initializeAdmin: the users table after it
initializeAdmin ==
  LET existingAdmin == getUserByEmail(adminEmail)
  IN  IF existingAdmin = {}
      THEN createUser([email |-> adminEmail, role |-> "admin"])
      ELSE users

\* registerRoutes: the bootstrap runs each time the server process starts
DoStart ==
  /\ users' = initializeAdmin
  /\ started' = TRUE
  /\ UNCHANGED <<projects, boards, tasks, members, raceVars, kanbanVars>>

\* An account is registered once the server is up.
DoRegister ==
  /\ started
  /\ Len(users) < MaxAccounts
  /\ \E email \in Emails, role \in GlobalRoles :
       users' = createUser([email |-> email, role |-> role])
  /\ UNCHANGED <<started, projects, boards, tasks, members, raceVars, kanbanVars>>

\* ------------------------------------------------------- requests and steps
Opt(S) == {{}} \cup {{x} : x \in S}

FailPoints == 0..MaxFailAt

\* The requests tried: a failing storage call is tried with one body only.
Inputs(Bodies) ==
  {r \in [f : FailPoints, body : Bodies] :
     r.f = 0 \/ r.body = CHOOSE b \in Bodies : TRUE}

CreateBodies == [valid : BOOLEAN]

ProjectPatchBodies == [ownerId : Opt(Users)]

BoardPatchBodies == [projectId : Opt(ProjectIds)]

TaskCreateBodies ==
  {b \in [valid : BOOLEAN, assigneeId : Users \cup {Null}] :
     b.valid \/ b.assigneeId = Null}

\* A task update that carries at most one of the three fields.
TaskPatchBodies ==
  {b \in [boardId : Opt(BoardIds), createdById : Opt(Users),
          assigneeId : Opt(Users \cup {Null})] :
     \/ b.boardId = {} /\ b.createdById = {}
     \/ b.boardId = {} /\ b.assigneeId = {}
     \/ b.createdById = {} /\ b.assigneeId = {}}

MemberBodies == [userId : Opt(Users), role : Opt(MemberRoles)]

\* gen_random_uuid(): an id no row of the table has
FreshId(ids, table) == CHOOSE id \in ids \ DOMAIN table :
                         \A other \in ids \ DOMAIN table : id <= other

\* The tables become what the response says.
Becomes(r) ==
  /\ projects' = r.store.projects
  /\ boards' = r.store.boards
  /\ tasks' = r.store.tasks
  /\ members' = r.store.members
  /\ UNCHANGED <<accountVars, raceVars, kanbanVars>>

DoGetProjects == \E u \in Callers, f \in FailPoints : Becomes(GetProjects(u, f))

\* The rows of the four tables together.
Rows == Cardinality(DOMAIN projects) + Cardinality(DOMAIN boards)
        + Cardinality(DOMAIN tasks) + Len(members)

DoPostProject ==
  /\ DOMAIN projects # ProjectIds
  /\ Rows < MaxRows
  /\ \E u \in Callers, r \in Inputs(CreateBodies) :
       Becomes(PostProject(u, r.body, FreshId(ProjectIds, projects), r.f))

DoGetProject ==
  \E u \in Callers, id \in ProjectIds, f \in FailPoints : Becomes(GetProject(u, id, f))

DoPatchProject ==
  \E u \in Callers, id \in ProjectIds, r \in Inputs(ProjectPatchBodies) :
    Becomes(PatchProject(u, id, r.body, r.f))

DoDeleteProject ==
  \E u \in Callers, id \in ProjectIds, f \in FailPoints : Becomes(DeleteProject(u, id, f))

DoGetBoards ==
  \E u \in Callers, pid \in ProjectIds, f \in FailPoints : Becomes(GetBoards(u, pid, f))

DoPostBoard ==
  /\ DOMAIN boards # BoardIds
  /\ Rows < MaxRows
  /\ \E u \in Callers, pid \in ProjectIds, r \in Inputs(CreateBodies) :
       Becomes(PostBoard(u, pid, r.body, FreshId(BoardIds, boards), r.f))

DoPatchBoard ==
  \E u \in Callers, id \in BoardIds, r \in Inputs(BoardPatchBodies) :
    Becomes(PatchBoard(u, id, r.body, r.f))

DoDeleteBoard ==
  \E u \in Callers, id \in BoardIds, f \in FailPoints : Becomes(DeleteBoard(u, id, f))

DoGetTasks ==
  \E u \in Callers, bid \in BoardIds, f \in FailPoints : Becomes(GetTasks(u, bid, f))

DoPostTask ==
  /\ DOMAIN tasks # TaskIds
  /\ Rows < MaxRows
  /\ \E u \in Callers, bid \in BoardIds, r \in Inputs(TaskCreateBodies) :
       Becomes(PostTask(u, bid, r.body, FreshId(TaskIds, tasks), r.f))

DoPatchTask ==
  \E u \in Callers, id \in TaskIds, r \in Inputs(TaskPatchBodies) :
    Becomes(PatchTask(u, id, r.body, r.f))

DoDeleteTask ==
  \E u \in Callers, id \in TaskIds, f \in FailPoints : Becomes(DeleteTask(u, id, f))

DoGetMembers ==
  \E u \in Callers, pid \in ProjectIds, f \in FailPoints : Becomes(GetMembers(u, pid, f))

DoPostMember ==
  /\ Len(members) < MaxMembers
  /\ Rows < MaxRows
  /\ \E u \in Callers, pid \in ProjectIds, r \in Inputs(MemberBodies) :
       Becomes(PostMember(u, pid, r.body, r.f))

DoDeleteMember ==
  \E u \in Callers, pid \in ProjectIds, uid \in Users, f \in FailPoints :
    Becomes(DeleteMember(u, pid, uid, f))

\* No update request is between its check and its write.
RaceIdle == inflight = {} /\ reply = {}

\* No Kanban board is mounted.
KanbanIdle == draggedTask = {} /\ kanbanTasks = <<>> /\ pending = <<>>

\* The tables are empty when the server first starts; registerRoutes has run
\* the bootstrap before the first request is served.
Init ==
  /\ projects = Restrict(<<>>, {})
  /\ boards = Restrict(<<>>, {})
  /\ tasks = Restrict(<<>>, {})
  /\ members = <<>>
  /\ users = <<[email |-> adminEmail, role |-> "admin"]>>
  /\ started = TRUE
  /\ RaceIdle
  /\ KanbanIdle

Next ==
  \/ DoGetProjects
  \/ DoPostProject
  \/ DoGetProject
  \/ DoPatchProject
  \/ DoDeleteProject
  \/ DoGetBoards
  \/ DoPostBoard
  \/ DoPatchBoard
  \/ DoDeleteBoard
  \/ DoGetTasks
  \/ DoPostTask
  \/ DoPatchTask
  \/ DoDeleteTask
  \/ DoGetMembers
  \/ DoPostMember
  \/ DoDeleteMember

Spec == Init /\ [][Next]_vars

\* The server process and the users table on their own: an empty database,
\* the process started and restarted, accounts registered in between.
InitAdmin ==
  /\ projects = Restrict(<<>>, {})
  /\ boards = Restrict(<<>>, {})
  /\ tasks = Restrict(<<>>, {})
  /\ members = <<>>
  /\ users = <<>>
  /\ started = FALSE
  /\ RaceIdle
  /\ KanbanIdle

NextAdmin ==
  \/ DoStart
  \/ DoRegister

SpecAdmin == InitAdmin /\ [][NextAdmin]_vars

\* ---------------------------------------------- updates racing with deletes
\* Every await of a handler is a point where another request runs. An update
\* request is taken in two steps: the guards and the handler's own lookups
\* and checks, then the storage update and the response; deletes of other
\* requests run in between.
MaxInflight == 2

\* The update requests in flight: the table, the id of the path and the body.
UpdateRequests ==
  [kind : {"project"}, id : ProjectIds, body : [ownerId : Opt({"C"})]]
  \cup [kind : {"board"}, id : BoardIds, body : BoardPatchBodies]
  \cup [kind : {"task"}, id : TaskIds,
        body : [boardId : Opt(BoardIds), createdById : {{}}, assigneeId : {{}}]]

\* The guards of the route and the checks of the handler let caller u
\* through to the storage update.
ChecksPass(u, req) ==
  CASE req.kind = "project" ->
         PatchProject(u, req.id, [ownerId |-> {}], 0).status = 200
    [] req.kind = "board" ->
         PatchBoard(u, req.id, [projectId |-> {}], 0).status = 200
    [] req.kind = "task" ->
         PatchTask(u, req.id,
                   [boardId |-> {}, createdById |-> {}, assigneeId |-> {}], 0).status = 200

\* The row the request updates is stored.
TargetStored(req) ==
  CASE req.kind = "project" -> HasProject(req.id)
    [] req.kind = "board" -> HasBoard(req.id)
    [] req.kind = "task" -> HasTask(req.id)

\* The foreign keys hold for the columns the body sets.
RefsOk(req) ==
  CASE req.kind = "project" -> ProjectRefsOk(req.body)
    [] req.kind = "board" -> BoardRefsOk(req.body)
    [] req.kind = "task" -> TaskRefsOk(req.body)

\* update(t).set(body).where(eq(t.id, id)): the tables after the statement
storageUpdate(req) ==
  CASE req.kind = "project" -> updateProject(req.id, req.body)
    [] req.kind = "board" -> updateBoard(req.id, req.body)
    [] req.kind = "task" -> updateTask(req.id, req.body)

\* .returning(): the rows the statement updated, none for a missing id
Returning(req, store) ==
  CASE req.kind = "project" ->
         {store.projects[i] : i \in {req.id} \cap DOMAIN store.projects}
    [] req.kind = "board" ->
         {store.boards[i] : i \in {req.id} \cap DOMAIN store.boards}
    [] req.kind = "task" ->
         {store.tasks[i] : i \in {req.id} \cap DOMAIN store.tasks}

\* The second half of an update handler: the storage update, 404 when it
\* returns no row, 500 when it throws (a foreign key of an updated row does
\* not hold).
FinishHandler(req) ==
  IF TargetStored(req) /\ ~RefsOk(req) THEN Resp(500, 1, Same)
  ELSE IF Returning(req, storageUpdate(req)) = {} THEN Resp(404, 1, storageUpdate(req))
  ELSE Resp(200, 1, storageUpdate(req))

\* An update request of some user passes its checks.
BeginUpdate ==
  /\ Cardinality(inflight) < MaxInflight
  /\ \E u \in Users, req \in UpdateRequests :
       /\ ChecksPass(u, req)
       /\ req \notin inflight
       /\ inflight' = inflight \cup {req}
  /\ UNCHANGED <<projects, boards, tasks, members, reply, accountVars, kanbanVars>>

\* An update request in flight runs its storage update and answers.
FinishUpdate ==
  \E req \in inflight :
    /\ inflight' = inflight \ {req}
    /\ reply' = {[kind |-> req.kind, id |-> req.id, status |-> FinishHandler(req).status]}
    /\ projects' = FinishHandler(req).store.projects
    /\ boards' = FinishHandler(req).store.boards
    /\ tasks' = FinishHandler(req).store.tasks
    /\ members' = FinishHandler(req).store.members
    /\ UNCHANGED <<accountVars, kanbanVars>>

\* Two projects of user B, a board in each, a task on the first board and a
\* manager-role member of the first project; no request in flight.
InitRace ==
  /\ projects = [p \in ProjectIds |-> [ownerId |-> "B"]]
  /\ boards = [b \in BoardIds |-> [projectId |-> IF b \in ProjectIds THEN b ELSE 1]]
  /\ tasks = [t \in TaskIds |-> [boardId |-> 1, createdById |-> "B", assigneeId |-> Null]]
  /\ members = <<[projectId |-> 1, userId |-> "A", role |-> "manager"]>>
  /\ users = <<[email |-> adminEmail, role |-> "admin"]>>
  /\ started = TRUE
  /\ RaceIdle
  /\ KanbanIdle

NextRace ==
  \/ BeginUpdate
  \/ FinishUpdate
  \/ DoDeleteProject
  \/ DoDeleteBoard
  \/ DoDeleteTask

SpecRace == InitRace /\ [][NextRace]_vars

\* ------------------------------------------------------- the Kanban board
\* The KanbanBoard component of one board: draggedTask is its state, the
\* tasks query its data, and pending the task updates it has issued that the
\* server has not answered yet.
NumCards == 2

MaxPending == 2

CardIds == 1..NumCards

\* The ids of the four columns, which are the values of tasks.status.
Columns == {"todo", "in-progress", "review", "done"}

\* onDragStart of a task card: the component keeps the task as rendered.
handleDragStart(task) ==
  /\ draggedTask' = {task}
  /\ UNCHANGED <<projects, boards, tasks, members, kanbanTasks, pending,
                 accountVars, raceVars>>

\* onDragEnd of a task card
handleDragEnd ==
  /\ draggedTask' = {}
  /\ UNCHANGED <<projects, boards, tasks, members, kanbanTasks, pending,
                 accountVars, raceVars>>

\* A drop handler that does not compare the task's status with the column.
handleDrop_NoCompare(columnId) ==
  /\ pending' = IF draggedTask # {}
                THEN Append(pending, [taskId |-> Val(draggedTask).id,
                                      updates |-> [status |-> columnId]])
                ELSE pending
  /\ draggedTask' = {}
  /\ UNCHANGED <<projects, boards, tasks, members, kanbanTasks, accountVars, raceVars>>

\* onDrop of a column
handleDrop(columnId) ==
  /\ pending' = IF draggedTask # {} /\ Val(draggedTask).status # columnId
                THEN Append(pending, [taskId |-> Val(draggedTask).id,
                                      updates |-> [status |-> columnId]])
                ELSE pending
  /\ draggedTask' = {}
  /\ UNCHANGED <<projects, boards, tasks, members, kanbanTasks, accountVars, raceVars>>

\* The oldest update is answered with success: onSuccess invalidates the
\* tasks query, and the refetch shows the task in its new column.
mutationSucceeds ==
  /\ pending # <<>>
  /\ kanbanTasks' = [kanbanTasks EXCEPT ![Head(pending).taskId] =
                       Head(pending).updates.status]
  /\ pending' = Tail(pending)
  /\ UNCHANGED <<projects, boards, tasks, members, draggedTask, accountVars, raceVars>>

\* The oldest update is refused or fails: the query data stays.
mutationFails ==
  /\ pending # <<>>
  /\ pending' = Tail(pending)
  /\ UNCHANGED <<projects, boards, tasks, members, draggedTask, kanbanTasks,
                 accountVars, raceVars>>

\* The board is mounted with its tasks loaded, each in some column.
InitKanban ==
  /\ projects = Restrict(<<>>, {})
  /\ boards = Restrict(<<>>, {})
  /\ tasks = Restrict(<<>>, {})
  /\ members = <<>>
  /\ users = <<[email |-> adminEmail, role |-> "admin"]>>
  /\ started = TRUE
  /\ RaceIdle
  /\ draggedTask = {}
  /\ kanbanTasks \in [CardIds -> Columns]
  /\ pending = <<>>

\* The events of the page: a card is picked up, a drag ends, something is
\* dropped on a column (a card or not), an update is answered.
NextKanban ==
  \/ \E t \in CardIds : handleDragStart([id |-> t, status |-> kanbanTasks[t]])
  \/ handleDragEnd
  \/ \E columnId \in {c \in Columns : Len(pending) < MaxPending} : handleDrop(columnId)
  \/ mutationSucceeds
  \/ mutationFails

SpecKanban == InitKanban /\ [][NextKanban]_vars

\* ------------------------------------------------------------- properties
\* The membership rows of user u for project p.
RowsOf(u, p) == SelectSeq(members, LAMBDA m : m.projectId = p /\ m.userId = u)

HasRow(u, p) == RowsOf(u, p) # <<>>

IsOwner(u, p) == projects[p].ownerId = u

Privileged(u, p) == IsOwner(u, p) \/ IsAdmin(u)

OkProjectBodies == {b \in ProjectPatchBodies : ProjectRefsOk(b)}

OkBoardBodies == {b \in BoardPatchBodies : BoardRefsOk(b)}

OkTaskBodies == {b \in TaskPatchBodies : TaskRefsOk(b)}

OkMemberBodies == {b \in MemberBodies : MemberRefsOk(b)}

OkTaskCreateBodies == {b \in TaskCreateBodies : b.valid}

FreeProjectIds == ProjectIds \ DOMAIN projects

FreeBoardIds == BoardIds \ DOMAIN boards

FreeTaskIds == TaskIds \ DOMAIN tasks

\* C1: the owner of a project and every admin are allowed every operation on
\* the project, on its boards and on the tasks of its boards, with or without
\* a membership row.
C1_OwnerAndAdminAllowed ==
  \A u \in Users, p \in DOMAIN projects :
    Privileged(u, p) =>
      /\ GetProject(u, p, 0).status = 200
      /\ \A body \in OkProjectBodies : PatchProject(u, p, body, 0).status = 200
      /\ DeleteProject(u, p, 0).status = 204
      /\ GetBoards(u, p, 0).status = 200
      /\ \A id \in FreeBoardIds : PostBoard(u, p, [valid |-> TRUE], id, 0).status = 201
      /\ GetMembers(u, p, 0).status = 200
      /\ \A body \in OkMemberBodies : PostMember(u, p, body, 0).status = 201
      /\ \A v \in Users : DeleteMember(u, p, v, 0).status = 204
      /\ \A b \in BoardsOf({p}) :
           /\ \A body \in OkBoardBodies : PatchBoard(u, b, body, 0).status = 200
           /\ DeleteBoard(u, b, 0).status = 204
           /\ GetTasks(u, b, 0).status = 200
           /\ \A id \in FreeTaskIds, body \in OkTaskCreateBodies :
                PostTask(u, b, body, id, 0).status = 201
      /\ \A t \in TasksOf(BoardsOf({p})) :
           /\ \A body \in OkTaskBodies : PatchTask(u, t, body, 0).status = 200
           /\ DeleteTask(u, t, 0).status = 204

\* An admin with no row in a project owned by somebody else deletes a board
\* of it that holds a task.
C1_Witness ==
  \E p \in DOMAIN projects, b \in DOMAIN boards, t \in DOMAIN tasks :
    /\ boards[b].projectId = p /\ tasks[t].boardId = b
    /\ ~IsOwner("D", p) /\ ~HasRow("D", p)
    /\ DeleteBoard("D", b, 0).status = 204
    /\ b \notin DOMAIN DeleteBoard("D", b, 0).store.boards

\* A user who is neither admin nor owner of p and has no membership row for p.
Outsider(u, p) == ~IsAdmin(u) /\ ~IsOwner(u, p) /\ ~HasRow(u, p)

Refused(status) == status \in {403, 404}

\* C2: a user who is not admin, does not own the project and has no membership
\* row for it is refused (403 or 404) every operation on the project, on its
\* boards and on its tasks, also when the user is a task's creator or assignee.
C2_OutsiderNeverAllowed ==
  \A u \in Users, p \in DOMAIN projects :
    Outsider(u, p) =>
      /\ Refused(GetProject(u, p, 0).status)
      /\ \A body \in ProjectPatchBodies : Refused(PatchProject(u, p, body, 0).status)
      /\ Refused(DeleteProject(u, p, 0).status)
      /\ Refused(GetBoards(u, p, 0).status)
      /\ \A id \in FreeBoardIds : Refused(PostBoard(u, p, [valid |-> TRUE], id, 0).status)
      /\ Refused(GetMembers(u, p, 0).status)
      /\ \A body \in MemberBodies : Refused(PostMember(u, p, body, 0).status)
      /\ \A v \in Users : Refused(DeleteMember(u, p, v, 0).status)
      /\ \A b \in BoardsOf({p}) :
           /\ \A body \in BoardPatchBodies : Refused(PatchBoard(u, b, body, 0).status)
           /\ Refused(DeleteBoard(u, b, 0).status)
           /\ Refused(GetTasks(u, b, 0).status)
           /\ \A id \in FreeTaskIds, body \in TaskCreateBodies :
                Refused(PostTask(u, b, body, id, 0).status)
      /\ \A t \in TasksOf(BoardsOf({p})) :
           /\ \A body \in TaskPatchBodies : Refused(PatchTask(u, t, body, 0).status)
           /\ Refused(DeleteTask(u, t, 0).status)

\* C3: the creator and the assignee of a task may update and delete it,
\* whatever their membership in the task's project.
C3_CreatorAndAssigneeModify ==
  \A t \in DOMAIN tasks, u \in Users :
    (tasks[t].createdById = u \/ tasks[t].assigneeId = u) =>
      /\ \A body \in OkTaskBodies :
           /\ PatchTask(u, t, body, 0).status = 200
           /\ PatchTask(u, t, body, 0).store = updateTask(t, body)
      /\ DeleteTask(u, t, 0).status = 204
      /\ t \notin DOMAIN DeleteTask(u, t, 0).store.tasks

ProjectOfTask(t) == boards[tasks[t].boardId].projectId

\* A task whose creator is an outsider of its project and whose assignee holds
\* a member-role row: both update and delete it.
C3_Witness ==
  \E t \in DOMAIN tasks, u, v \in Users :
    /\ tasks[t].createdById = u /\ Outsider(u, ProjectOfTask(t))
    /\ tasks[t].assigneeId = v /\ v # u /\ ~Privileged(v, ProjectOfTask(t))
    /\ HasRow(v, ProjectOfTask(t)) /\ Head(RowsOf(v, ProjectOfTask(t))).role = "member"
    /\ PatchTask(u, t, [boardId |-> {}, createdById |-> {}, assigneeId |-> {Null}], 0).status = 200
    /\ DeleteTask(v, t, 0).status = 204

\* Every membership row of u for p has role member, and there is one.
OnlyMember(u, p) ==
  /\ ~Privileged(u, p)
  /\ HasRow(u, p)
  /\ \A i \in 1..Len(RowsOf(u, p)) : RowsOf(u, p)[i].role = "member"

\* C4: a user whose only relation to a project is a member-role row reads the
\* project and its boards and creates boards in it, and is refused (403) the
\* update and the deletion of the project and of every board of it.
C4_MemberReadsAndCreatesOnly ==
  \A u \in Users, p \in DOMAIN projects :
    OnlyMember(u, p) =>
      /\ GetProject(u, p, 0).status = 200
      /\ GetBoards(u, p, 0).status = 200
      /\ \A id \in FreeBoardIds :
           /\ PostBoard(u, p, [valid |-> TRUE], id, 0).status = 201
           /\ PostBoard(u, p, [valid |-> TRUE], id, 0).store.boards[id].projectId = p
      /\ \A body \in ProjectPatchBodies :
           PatchProject(u, p, body, 0) = Resp(403, PatchProject(u, p, body, 0).calls, Same)
      /\ DeleteProject(u, p, 0) = Resp(403, DeleteProject(u, p, 0).calls, Same)
      /\ \A b \in BoardsOf({p}) :
           /\ \A body \in BoardPatchBodies :
                PatchBoard(u, b, body, 0) = Resp(403, PatchBoard(u, b, body, 0).calls, Same)
           /\ DeleteBoard(u, b, 0) = Resp(403, DeleteBoard(u, b, 0).calls, Same)

\* A member-role user in a project that has a board, with room for another.
C4_Witness ==
  \E u \in Users, p \in DOMAIN projects, b \in DOMAIN boards :
    /\ OnlyMember(u, p) /\ boards[b].projectId = p
    /\ FreeBoardIds # {}
    /\ DeleteBoard(u, b, 0).status = 403
    /\ PatchProject(u, p, [ownerId |-> {u}], 0).status = 403
    /\ \E id \in FreeBoardIds : PostBoard(u, p, [valid |-> TRUE], id, 0).status = 201

\* The response to a request that carries no authenticated identity.
Unauthenticated(r) == r = Resp(401, 0, Same)

\* C5: on every protected route a request without an authenticated identity
\* ends in 401 before any storage call is made, whichever call would fail.
C5_UnauthenticatedBeforeLookup ==
  \A f \in FailPoints :
    /\ Unauthenticated(GetProjects(NoUser, f))
    /\ \A body \in CreateBodies, id \in ProjectIds :
         Unauthenticated(PostProject(NoUser, body, id, f))
    /\ \A p \in ProjectIds :
         /\ Unauthenticated(GetProject(NoUser, p, f))
         /\ \A body \in ProjectPatchBodies : Unauthenticated(PatchProject(NoUser, p, body, f))
         /\ Unauthenticated(DeleteProject(NoUser, p, f))
         /\ Unauthenticated(GetBoards(NoUser, p, f))
         /\ \A body \in CreateBodies, id \in BoardIds :
              Unauthenticated(PostBoard(NoUser, p, body, id, f))
         /\ Unauthenticated(GetMembers(NoUser, p, f))
         /\ \A body \in MemberBodies : Unauthenticated(PostMember(NoUser, p, body, f))
         /\ \A v \in Users : Unauthenticated(DeleteMember(NoUser, p, v, f))
    /\ \A b \in BoardIds :
         /\ \A body \in BoardPatchBodies : Unauthenticated(PatchBoard(NoUser, b, body, f))
         /\ Unauthenticated(DeleteBoard(NoUser, b, f))
         /\ Unauthenticated(GetTasks(NoUser, b, f))
         /\ \A body \in TaskCreateBodies, id \in TaskIds :
              Unauthenticated(PostTask(NoUser, b, body, id, f))
    /\ \A t \in TaskIds :
         /\ \A body \in TaskPatchBodies : Unauthenticated(PatchTask(NoUser, t, body, f))
         /\ Unauthenticated(DeleteTask(NoUser, t, f))

\* A project, a board and a task exist, an authenticated outsider is refused
\* the task's update with 403 after storage calls, the unauthenticated one
\* with 401 after none.
C5_Witness ==
  \E t \in DOMAIN tasks, u \in Users :
    /\ PatchTask(u, t, [boardId |-> {}, createdById |-> {}, assigneeId |-> {}], 0).status = 403
    /\ PatchTask(u, t, [boardId |-> {}, createdById |-> {}, assigneeId |-> {}], 0).calls > 0
    /\ PatchTask(NoUser, t, [boardId |-> {}, createdById |-> {}, assigneeId |-> {}], 0).status = 401
    /\ PatchTask(NoUser, t, [boardId |-> {}, createdById |-> {}, assigneeId |-> {}], 0).calls = 0

\* The target's chain up to its project has a missing link.
BoardChainMissing(b) == ~HasBoard(b) \/ ~HasProject(boards[b].projectId)

TaskChainMissing(t) == ~HasTask(t) \/ BoardChainMissing(tasks[t].boardId)

NotFound(r) == r.status = 404 /\ r.store = Same

\* C6: for every authenticated caller, an operation on a project, board or
\* task that does not exist, or whose board or project does not exist, ends
\* in 404, never in 403 or in success.
C6_MissingIsNotFound ==
  \A u \in Users :
    /\ \A p \in ProjectIds : ~HasProject(p) =>
         /\ NotFound(GetProject(u, p, 0))
         /\ \A body \in ProjectPatchBodies : NotFound(PatchProject(u, p, body, 0))
         /\ NotFound(DeleteProject(u, p, 0))
         /\ NotFound(GetBoards(u, p, 0))
         /\ \A body \in CreateBodies, id \in FreeBoardIds :
              NotFound(PostBoard(u, p, body, id, 0))
         /\ NotFound(GetMembers(u, p, 0))
         /\ \A body \in MemberBodies : NotFound(PostMember(u, p, body, 0))
         /\ \A v \in Users : NotFound(DeleteMember(u, p, v, 0))
    /\ \A b \in BoardIds : BoardChainMissing(b) =>
         /\ \A body \in BoardPatchBodies : NotFound(PatchBoard(u, b, body, 0))
         /\ NotFound(DeleteBoard(u, b, 0))
         /\ NotFound(GetTasks(u, b, 0))
         /\ \A body \in TaskCreateBodies, id \in FreeTaskIds :
              NotFound(PostTask(u, b, body, id, 0))
    /\ \A t \in TaskIds : TaskChainMissing(t) =>
         /\ \A body \in TaskPatchBodies : NotFound(PatchTask(u, t, body, 0))
         /\ NotFound(DeleteTask(u, t, 0))

\* One project exists and the other does not; the owner of the first, one of
\* its members and an outsider all get 404 on the missing one and on a
\* missing board.
C6_Witness ==
  \E p \in DOMAIN projects, q \in ProjectIds, b \in BoardIds, u, v, w \in Users :
    /\ ~HasProject(q) /\ ~HasBoard(b)
    /\ IsOwner(u, p) /\ ~IsAdmin(u) /\ OnlyMember(v, p) /\ Outsider(w, p)
    /\ \A x \in {u, v, w} :
         /\ PostMember(x, q, [userId |-> {v}, role |-> {}], 0).status = 404
         /\ DeleteBoard(x, b, 0).status = 404

\* C7: once a board is deleted, the update and the deletion of a task that
\* belonged to it end in 404 for every authenticated caller.
C7_TaskOfDeletedBoardNotFound ==
  [][\A b \in DOMAIN boards, t \in DOMAIN tasks :
       (tasks[t].boardId = b /\ b \notin DOMAIN boards') =>
         \A u \in Users :
           /\ \A body \in TaskPatchBodies : NotFound(PatchTask(u, t, body, 0))'
           /\ NotFound(DeleteTask(u, t, 0))']_vars

\* A board that holds a task created by an outsider of the project and
\* assigned to a member, which a manager-role member is allowed to delete:
\* the deletion takes the task with it.
C7_Witness ==
  \E b \in DOMAIN boards, t \in DOMAIN tasks, u \in Users :
    /\ tasks[t].boardId = b
    /\ ~Privileged(u, boards[b].projectId)
    /\ Outsider(tasks[t].createdById, boards[b].projectId)
    /\ DeleteBoard(u, b, 0).status = 204
    /\ b \notin DOMAIN DeleteBoard(u, b, 0).store.boards
    /\ t \notin DOMAIN DeleteBoard(u, b, 0).store.tasks

\* With its k-th storage call throwing, for every call k the request makes,
\* the request ends in 500 and changes nothing.
FailsAs500(r0, rf(_)) ==
  \A k \in 1..r0.calls : rf(k).status = 500 /\ rf(k).store = Same

\* C8: a storage call that throws while a request is handled ends the request
\* in 500, never in success, 403, 404 or 400, and nothing is written.
C8_StorageFailureIs500 ==
  \A u \in Users :
    /\ FailsAs500(GetProjects(u, 0), LAMBDA k : GetProjects(u, k))
    /\ \A body \in CreateBodies, id \in FreeProjectIds :
         FailsAs500(PostProject(u, body, id, 0), LAMBDA k : PostProject(u, body, id, k))
    /\ \A p \in ProjectIds :
         /\ FailsAs500(GetProject(u, p, 0), LAMBDA k : GetProject(u, p, k))
         /\ \A body \in OkProjectBodies :
              FailsAs500(PatchProject(u, p, body, 0), LAMBDA k : PatchProject(u, p, body, k))
         /\ FailsAs500(DeleteProject(u, p, 0), LAMBDA k : DeleteProject(u, p, k))
         /\ FailsAs500(GetBoards(u, p, 0), LAMBDA k : GetBoards(u, p, k))
         /\ \A body \in CreateBodies, id \in FreeBoardIds :
              FailsAs500(PostBoard(u, p, body, id, 0),
                         LAMBDA k : PostBoard(u, p, body, id, k))
         /\ FailsAs500(GetMembers(u, p, 0), LAMBDA k : GetMembers(u, p, k))
         /\ \A body \in OkMemberBodies :
              FailsAs500(PostMember(u, p, body, 0), LAMBDA k : PostMember(u, p, body, k))
         /\ \A v \in Users :
              FailsAs500(DeleteMember(u, p, v, 0), LAMBDA k : DeleteMember(u, p, v, k))
    /\ \A b \in BoardIds :
         /\ \A body \in OkBoardBodies :
              FailsAs500(PatchBoard(u, b, body, 0), LAMBDA k : PatchBoard(u, b, body, k))
         /\ FailsAs500(DeleteBoard(u, b, 0), LAMBDA k : DeleteBoard(u, b, k))
         /\ FailsAs500(GetTasks(u, b, 0), LAMBDA k : GetTasks(u, b, k))
         /\ \A body \in OkTaskCreateBodies, id \in FreeTaskIds :
              FailsAs500(PostTask(u, b, body, id, 0),
                         LAMBDA k : PostTask(u, b, body, id, k))
    /\ \A t \in TaskIds :
         /\ \A body \in OkTaskBodies :
              FailsAs500(PatchTask(u, t, body, 0), LAMBDA k : PatchTask(u, t, body, k))
         /\ FailsAs500(DeleteTask(u, t, 0), LAMBDA k : DeleteTask(u, t, k))

\* C9: with A the owner of P and B holding only a member-role row in P, the
\* task T that B creates on a board of P and assigns to itself is stored with
\* B as creator and assignee; for such a T, B's update is allowed and the
\* update by a third user C, an outsider of P, is refused with 403.
C9_MemberUpdatesOwnTask ==
  /\ \A b \in DOMAIN boards, B \in Users, id \in FreeTaskIds :
       OnlyMember(B, boards[b].projectId) =>
         /\ PostTask(B, b, [valid |-> TRUE, assigneeId |-> B], id, 0).status = 201
         /\ PostTask(B, b, [valid |-> TRUE, assigneeId |-> B], id, 0).store.tasks[id]
              = [boardId |-> b, createdById |-> B, assigneeId |-> B]
  /\ \A t \in DOMAIN tasks, B, C \in Users :
       ( /\ OnlyMember(B, ProjectOfTask(t))
         /\ tasks[t].createdById = B /\ tasks[t].assigneeId = B
         /\ Outsider(C, ProjectOfTask(t)) ) =>
           \A body \in OkTaskBodies :
             /\ PatchTask(B, t, body, 0).status = 200
             /\ PatchTask(B, t, body, 0).store = updateTask(t, body)
             /\ PatchTask(C, t, body, 0).status = 403
             /\ PatchTask(C, t, body, 0).store = Same

\* A owns P without being admin, B holds a member-role row, C is an outsider,
\* and T is on a board of P with B as creator and assignee.
C9_Witness ==
  \E p \in DOMAIN projects, b \in DOMAIN boards, t \in DOMAIN tasks, A, B, C \in Users :
    /\ boards[b].projectId = p /\ tasks[t].boardId = b
    /\ IsOwner(A, p) /\ ~IsAdmin(A)
    /\ OnlyMember(B, p) /\ Outsider(C, p)
    /\ tasks[t] = [boardId |-> b, createdById |-> B, assigneeId |-> B]
    /\ PatchTask(B, t, [boardId |-> {}, createdById |-> {}, assigneeId |-> {}], 0).status = 200
    /\ PatchTask(C, t, [boardId |-> {}, createdById |-> {}, assigneeId |-> {}], 0).status = 403

\* C10: the update and the deletion of a project by a caller who is neither
\* its owner nor an admin, whatever membership row the caller holds, end in
\* 403 and leave the project as it was.
C10_ProjectWriteOwnerOrAdminOnly ==
  \A u \in Users, p \in DOMAIN projects :
    ~Privileged(u, p) =>
      /\ \A body \in ProjectPatchBodies :
           /\ PatchProject(u, p, body, 0).status = 403
           /\ PatchProject(u, p, body, 0).store = Same
      /\ DeleteProject(u, p, 0).status = 403
      /\ DeleteProject(u, p, 0).store = Same

\* A project with two members who are neither admin nor owner, one holding an
\* owner-role row and one a manager-role row: both are refused.
C10_Witness ==
  \E p \in DOMAIN projects, u, v \in Users :
    /\ ~Privileged(u, p) /\ ~Privileged(v, p)
    /\ HasRow(u, p) /\ Head(RowsOf(u, p)).role = "owner"
    /\ HasRow(v, p) /\ Head(RowsOf(v, p)).role = "manager"
    /\ DeleteProject(u, p, 0).status = 403
    /\ PatchProject(v, p, [ownerId |-> {v}], 0).status = 403

\* The design treats more than one membership row of a user for a project as
\* undefined: the role-based rules are stated for at most one row.
AtMostOneRow(u, p) == Len(RowsOf(u, p)) <= 1

\* u holds a membership row for p whose role is one of roles.
RowRoleIn(u, p, roles) ==
  \E i \in 1..Len(RowsOf(u, p)) : RowsOf(u, p)[i].role \in roles

C12_TaskModifyByRole ==
  \A u \in Users, t \in DOMAIN tasks :
    LET p == ProjectOfTask(t)
        own == tasks[t].createdById = u \/ tasks[t].assigneeId = u
    IN  (~Privileged(u, p) /\ Len(RowsOf(u, p)) = 1) =>
          IF RowsOf(u, p)[1].role \in {"owner", "manager"} \/ own
          THEN /\ \A body \in OkTaskBodies :
                    /\ PatchTask(u, t, body, 0).status = 200
                    /\ PatchTask(u, t, body, 0).store = updateTask(t, body)
               /\ DeleteTask(u, t, 0).status = 204
               /\ t \notin DOMAIN DeleteTask(u, t, 0).store.tasks
          ELSE /\ \A body \in TaskPatchBodies :
                    /\ PatchTask(u, t, body, 0).status = 403
                    /\ PatchTask(u, t, body, 0).store = Same
               /\ DeleteTask(u, t, 0).status = 403
               /\ DeleteTask(u, t, 0).store = Same

\* A task that a manager-role member, who is neither admin, owner, creator
\* nor assignee, deletes and reassigns to themselves.
C12_Witness ==
  \E t \in DOMAIN tasks, u \in Users :
    LET p == ProjectOfTask(t)
    IN  /\ ~Privileged(u, p)
        /\ Len(RowsOf(u, p)) = 1 /\ RowsOf(u, p)[1].role = "manager"
        /\ tasks[t].createdById # u /\ tasks[t].assigneeId # u
        /\ DeleteTask(u, t, 0).status = 204
        /\ PatchTask(u, t, [boardId |-> {}, createdById |-> {}, assigneeId |-> {u}], 0).status = 200

\* C13: adding a member to a project and removing one succeed for the
\* project's owner and for an admin; every other authenticated caller, the
\* holders of owner-role and manager-role rows included, gets 403 and the
\* membership rows stay as they were.
C13_MembersByOwnerOrAdminOnly ==
  \A u \in Users, p \in DOMAIN projects :
    IF Privileged(u, p)
    THEN /\ \A body \in OkMemberBodies :
              /\ PostMember(u, p, body, 0).status = 201
              /\ Len(PostMember(u, p, body, 0).store.members) = Len(members) + 1
         /\ \A v \in Users :
              /\ DeleteMember(u, p, v, 0).status = 204
              /\ DeleteMember(u, p, v, 0).store = removeProjectMember(p, v)
    ELSE /\ \A body \in MemberBodies :
              /\ PostMember(u, p, body, 0).status = 403
              /\ PostMember(u, p, body, 0).store = Same
         /\ \A v \in Users :
              /\ DeleteMember(u, p, v, 0).status = 403
              /\ DeleteMember(u, p, v, 0).store = Same

\* A project with an owner-role member and a manager-role member, neither of
\* them admin or owner of the project: one may not remove the other, nor
\* raise their own role, while the project's owner removes either.
C13_Witness ==
  \E p \in DOMAIN projects, u, v \in Users :
    /\ ~Privileged(u, p) /\ ~Privileged(v, p) /\ u # v
    /\ RowRoleIn(u, p, {"owner"}) /\ RowRoleIn(v, p, {"manager"})
    /\ DeleteMember(u, p, v, 0).status = 403
    /\ PostMember(v, p, [userId |-> {v}, role |-> {"owner"}], 0).status = 403
    /\ DeleteMember(projects[p].ownerId, p, v, 0).status = 204

\* C14: creating a board in a project, and a task on a board of it, succeeds
\* for the project's owner, for an admin and for the holder of a membership
\* row of any role; a caller who is none of these gets 403 and nothing is
\* created.
C14_CreationNeedsMembership ==
  \A u \in Users, p \in DOMAIN projects :
    IF Privileged(u, p) \/ HasRow(u, p)
    THEN /\ \A id \in FreeBoardIds :
              /\ PostBoard(u, p, [valid |-> TRUE], id, 0).status = 201
              /\ PostBoard(u, p, [valid |-> TRUE], id, 0).store = createBoard(id, [projectId |-> p])
         /\ \A b \in BoardsOf({p}), id \in FreeTaskIds, body \in OkTaskCreateBodies :
              /\ PostTask(u, b, body, id, 0).status = 201
              /\ PostTask(u, b, body, id, 0).store.tasks[id].boardId = b
    ELSE /\ \A id \in FreeBoardIds, body \in CreateBodies :
              /\ PostBoard(u, p, body, id, 0).status = 403
              /\ PostBoard(u, p, body, id, 0).store = Same
         /\ \A b \in BoardsOf({p}), id \in FreeTaskIds, body \in TaskCreateBodies :
              /\ PostTask(u, b, body, id, 0).status = 403
              /\ PostTask(u, b, body, id, 0).store = Same

\* A project with a board, room for a second board and for a task, a
\* member-role member and an outsider: the member creates both, the outsider
\* neither.
C14_Witness ==
  \E p \in DOMAIN projects, b \in DOMAIN boards, u, v \in Users :
    /\ boards[b].projectId = p
    /\ OnlyMember(u, p) /\ Outsider(v, p)
    /\ \E id \in FreeBoardIds :
         /\ PostBoard(u, p, [valid |-> TRUE], id, 0).status = 201
         /\ PostBoard(v, p, [valid |-> TRUE], id, 0).status = 403
    /\ \E id \in FreeTaskIds :
         /\ PostTask(u, b, [valid |-> TRUE, assigneeId |-> Null], id, 0).status = 201
         /\ PostTask(v, b, [valid |-> TRUE, assigneeId |-> Null], id, 0).status = 403

\* C15: project creation is never refused with 403 to an authenticated user,
\* whatever the user's global role, the request body and the outcome of the
\* insert; with a valid body and a working store it creates the project with
\* the caller as owner.
C15_ProjectCreationOpenToAll ==
  \A u \in Users, id \in FreeProjectIds :
    /\ \A body \in CreateBodies, f \in FailPoints :
         PostProject(u, body, id, f).status # 403
    /\ PostProject(u, [valid |-> TRUE], id, 0).status = 201
    /\ PostProject(u, [valid |-> TRUE], id, 0).store = createProject(id, [ownerId |-> u])

\* A project created by a user of global role user exists, and there is room
\* for another, which a user of each global role creates.
C15_Witness ==
  /\ \E p \in DOMAIN projects : globalRole[projects[p].ownerId] = "user"
  /\ \E id \in FreeProjectIds :
       \A role \in {"admin", "manager", "user"} :
         \E u \in Users :
           /\ globalRole[u] = role
           /\ PostProject(u, [valid |-> TRUE], id, 0).status = 201

\* C16: no step changes the ownerId of a project that exists before and after
\* it: a project keeps the owner it was created with.
C16_OwnerNeverChanges ==
  [][\A p \in DOMAIN projects \cap DOMAIN projects' :
       projects'[p].ownerId = projects[p].ownerId]_vars

\* C17: no step changes the createdById of a task that exists before and
\* after it: a task keeps the creator it was created with.
C17_CreatorNeverChanges ==
  [][\A t \in DOMAIN tasks \cap DOMAIN tasks' :
       tasks'[t].createdById = tasks[t].createdById]_vars

\* C18: a user holds at most one membership row for a project.
C18_OneRowPerProjectAndUser ==
  \A p \in ProjectIds, u \in Users : Len(RowsOf(u, p)) <= 1

\* C19: a successful project delete leaves no board, task or membership row
\* of the project, and a successful board delete no task of the board; the
\* other projects, and the boards, tasks and membership rows that did not
\* belong to what was deleted, stay as they were.
C19_DeleteCascades ==
  \A u \in Users :
    /\ \A p \in DOMAIN projects :
         LET r == DeleteProject(u, p, 0)
             gone == BoardsOf({p})
         IN  r.status = 204 =>
               /\ p \notin DOMAIN r.store.projects
               /\ \A b \in DOMAIN r.store.boards : r.store.boards[b].projectId # p
               /\ \A t \in DOMAIN r.store.tasks : tasks[t].boardId \notin gone
               /\ \A i \in 1..Len(r.store.members) : r.store.members[i].projectId # p
               /\ \A q \in DOMAIN projects \ {p} :
                    q \in DOMAIN r.store.projects /\ r.store.projects[q] = projects[q]
               /\ \A b \in DOMAIN boards \ gone :
                    b \in DOMAIN r.store.boards /\ r.store.boards[b] = boards[b]
               /\ \A t \in DOMAIN tasks \ TasksOf(gone) :
                    t \in DOMAIN r.store.tasks /\ r.store.tasks[t] = tasks[t]
               /\ r.store.members = SelectSeq(members, LAMBDA m : m.projectId # p)
    /\ \A b \in DOMAIN boards :
         LET r == DeleteBoard(u, b, 0)
         IN  r.status = 204 =>
               /\ b \notin DOMAIN r.store.boards
               /\ \A t \in DOMAIN r.store.tasks : r.store.tasks[t].boardId # b
               /\ r.store.projects = projects
               /\ r.store.members = members
               /\ \A c \in DOMAIN boards \ {b} :
                    c \in DOMAIN r.store.boards /\ r.store.boards[c] = boards[c]
               /\ \A t \in DOMAIN tasks \ TasksOf({b}) :
                    t \in DOMAIN r.store.tasks /\ r.store.tasks[t] = tasks[t]

\* A project with a board, a task on the board and a membership row, which
\* its owner deletes.
C19_Witness ==
  \E p \in DOMAIN projects, b \in DOMAIN boards, t \in DOMAIN tasks :
    /\ boards[b].projectId = p /\ tasks[t].boardId = b
    /\ getProjectMembers(p) # <<>>
    /\ DeleteProject(projects[p].ownerId, p, 0).status = 204
    /\ DeleteProject(projects[p].ownerId, p, 0).store.tasks = Restrict(tasks, {})
    /\ DeleteBoard(projects[p].ownerId, b, 0).status = 204

\* A response that reports no success and leaves the tables as they were.
Rejected(r) == r.status \notin {200, 201, 204} /\ r.store = Same

\* C20: every board's projectId names a stored project and every task's
\* boardId a stored board, and a create or update that names a project or a
\* board that is not stored is rejected and writes nothing.
C20_NoDanglingReference ==
  /\ \A b \in DOMAIN boards : boards[b].projectId \in DOMAIN projects
  /\ \A t \in DOMAIN tasks : tasks[t].boardId \in DOMAIN boards
  /\ \A u \in Users :
       /\ \A p \in ProjectIds \ DOMAIN projects, id \in FreeBoardIds :
            Rejected(PostBoard(u, p, [valid |-> TRUE], id, 0))
       /\ \A b \in BoardIds \ DOMAIN boards, id \in FreeTaskIds,
                body \in OkTaskCreateBodies :
            Rejected(PostTask(u, b, body, id, 0))
       /\ \A b \in DOMAIN boards, body \in BoardPatchBodies :
            ~BoardRefsOk(body) => Rejected(PatchBoard(u, b, body, 0))
       /\ \A t \in DOMAIN tasks, body \in TaskPatchBodies :
            (Has(body.boardId) /\ ~HasBoard(Val(body.boardId)))
              => Rejected(PatchTask(u, t, body, 0))

\* A task on a board of a project, with a project id and a board id that name
\* nothing: the project's owner may not move the board or the task there.
C20_Witness ==
  \E p \in DOMAIN projects, b \in DOMAIN boards, t \in DOMAIN tasks :
    /\ boards[b].projectId = p /\ tasks[t].boardId = b
    /\ \E q \in ProjectIds \ DOMAIN projects :
         PatchBoard(projects[p].ownerId, b, [projectId |-> {q}], 0).status = 500
    /\ \E c \in BoardIds \ DOMAIN boards :
         PatchTask(projects[p].ownerId, t,
                   [boardId |-> {c}, createdById |-> {}, assigneeId |-> {}], 0).status = 500

\* The accounts that carry the well-known admin email.
AdminAccounts == SelectSeq(users, LAMBDA a : a.email = adminEmail)

\* C21: once the server process has started, exactly one account carries the
\* admin email and its global role is admin, and running the bootstrap again
\* leaves the users table as it is.
C21_BootstrapAdminOnce ==
  started =>
    /\ Len(AdminAccounts) = 1
    /\ AdminAccounts[1].role = "admin"
    /\ initializeAdmin = users

\* The server is up, other accounts have been registered after the admin's,
\* and the bootstrap finds the admin account.
C21_Witness ==
  /\ started
  /\ Len(users) >= 3
  /\ getUserByEmail(adminEmail) = {[email |-> adminEmail, role |-> "admin"]}
  /\ initializeAdmin = users

\* The responses to every request caller u can send, on every id, with every
\* body, when storage call f of the request throws (0: none).
Responses(u, f) ==
  {GetProjects(u, f)}
  \cup {PostProject(u, body, id, f) : body \in CreateBodies, id \in FreeProjectIds}
  \cup {GetProject(u, p, f) : p \in ProjectIds}
  \cup {PatchProject(u, p, body, f) : p \in ProjectIds, body \in ProjectPatchBodies}
  \cup {DeleteProject(u, p, f) : p \in ProjectIds}
  \cup {GetBoards(u, p, f) : p \in ProjectIds}
  \cup {PostBoard(u, p, body, id, f) :
          p \in ProjectIds, body \in CreateBodies, id \in FreeBoardIds}
  \cup {GetMembers(u, p, f) : p \in ProjectIds}
  \cup {PostMember(u, p, body, f) : p \in ProjectIds, body \in MemberBodies}
  \cup {DeleteMember(u, p, v, f) : p \in ProjectIds, v \in Users}
  \cup {PatchBoard(u, b, body, f) : b \in BoardIds, body \in BoardPatchBodies}
  \cup {DeleteBoard(u, b, f) : b \in BoardIds}
  \cup {GetTasks(u, b, f) : b \in BoardIds}
  \cup {PostTask(u, b, body, id, f) :
          b \in BoardIds, body \in TaskCreateBodies, id \in FreeTaskIds}
  \cup {PatchTask(u, t, body, f) : t \in TaskIds, body \in TaskPatchBodies}
  \cup {DeleteTask(u, t, f) : t \in TaskIds}

\* C22: a request that ends in 401, 403 or 404 leaves every table as it was,
\* and a request that writes to a table ends in success.
C22_RefusalsWriteNothing ==
  \A u \in Callers, f \in FailPoints :
    \A r \in Responses(u, f) :
      /\ r.status \in {401, 403, 404} => r.store = Same
      /\ r.store # Same => r.status \in {200, 201, 204}

\* A project with a membership row and a user who is neither its owner nor an
\* admin: the user's requests to remove the row, to add one and to delete the
\* project end in 403, a request on a missing board in 404, one without
\* identity in 401.
C22_Witness ==
  \E p \in DOMAIN projects, u \in Users :
    /\ ~Privileged(u, p)
    /\ getProjectMembers(p) # <<>>
    /\ DeleteMember(u, p, getProjectMembers(p)[1].userId, 0).status = 403
    /\ PostMember(u, p, [userId |-> {u}, role |-> {"owner"}], 0).status = 403
    /\ DeleteProject(u, p, 0).status = 403
    /\ \E b \in BoardIds \ DOMAIN boards : DeleteBoard(u, b, 0).status = 404
    /\ DeleteProject(NoUser, p, 0).status = 401

\* Create bodies that name an owner, a project, a board or a creator of
\* their own, besides the ones that do not.
ProjectBodiesNamingOwner == [valid : {TRUE}, ownerId : Users] \cup {[valid |-> TRUE]}

BoardBodiesNamingProject == [valid : {TRUE}, projectId : ProjectIds] \cup {[valid |-> TRUE]}

TaskBodiesNamingIds ==
  [valid : {TRUE}, assigneeId : Users \cup {Null}, boardId : BoardIds, createdById : Users]
  \cup [valid : {TRUE}, assigneeId : Users \cup {Null}, createdById : Users]
  \cup [valid : {TRUE}, assigneeId : Users \cup {Null}, boardId : BoardIds]
  \cup OkTaskCreateBodies

\* C23: a created project is owned by the caller, a created board belongs to
\* the project of the path, and a created task is on the board of the path
\* with the caller as creator, whatever owner, project, board or creator the
\* request body names.
C23_IdentityFromContext ==
  \A u \in Users :
    /\ \A id \in FreeProjectIds, body \in ProjectBodiesNamingOwner :
         LET r == PostProject(u, body, id, 0)
         IN  r.status = 201 /\ r.store.projects[id].ownerId = u
    /\ \A p \in DOMAIN projects, id \in FreeBoardIds, body \in BoardBodiesNamingProject :
         LET r == PostBoard(u, p, body, id, 0)
         IN  r.status = 201 => r.store.boards[id].projectId = p
    /\ \A b \in DOMAIN boards, id \in FreeTaskIds, body \in TaskBodiesNamingIds :
         LET r == PostTask(u, b, body, id, 0)
         IN  r.status = 201 =>
               /\ r.store.tasks[id].boardId = b
               /\ r.store.tasks[id].createdById = u
               /\ r.store.tasks[id].assigneeId = body.assigneeId

\* Two projects of different owners, each with a board, and room for a task:
\* the owner of one creates a task whose body names the other's board and
\* the other owner as creator.
C23_Witness ==
  \E p, q \in DOMAIN projects, b, c \in DOMAIN boards, id \in FreeTaskIds :
    /\ p # q /\ projects[p].ownerId # projects[q].ownerId
    /\ boards[b].projectId = p /\ boards[c].projectId = q
    /\ LET body == [valid |-> TRUE, assigneeId |-> Null, boardId |-> c,
                     createdById |-> projects[q].ownerId]
           r == PostTask(projects[p].ownerId, b, body, id, 0)
       IN  /\ r.status = 201
           /\ r.store.tasks[id] = [boardId |-> b, createdById |-> projects[p].ownerId,
                                    assigneeId |-> Null]

\* The ids a list holds.
Listed(list) == {list[i] : i \in 1..Len(list)}

\* C24: getProjects(u) returns the projects u owns or holds a membership row
\* for, each of them once.
C24_ListIsOwnedOrMember ==
  \A u \in Users :
    /\ Listed(getProjects(u)) =
         {p \in DOMAIN projects : projects[p].ownerId = u \/ HasRow(u, p)}
    /\ Len(getProjects(u)) = Cardinality(Listed(getProjects(u)))

\* A user owns a project and holds two membership rows for it, so that both
\* joins return the project more than once.
C24_Witness ==
  \E u \in Users, p \in DOMAIN projects :
    /\ projects[p].ownerId = u
    /\ Len(RowsOf(u, p)) = 2
    /\ Len(userProjects(u)) = 2 /\ Len(memberProjects(u)) = 2
    /\ getProjects(u) = <<p>>

\* C25: every project on a user's list is one the user may read, and every
\* project a user who is not admin may read is on the user's list.
C25_ListAgreesWithRead ==
  \A u \in Users, p \in DOMAIN projects :
    /\ p \in Listed(getProjects(u)) => GetProject(u, p, 0).status = 200
    /\ (~IsAdmin(u) /\ GetProject(u, p, 0).status = 200) => p \in Listed(getProjects(u))

\* A member-role member reads a project that is on their list by membership
\* alone, a user with no row is refused one that is not on theirs, and an
\* admin reads one that is not on the admin's list.
C25_Witness ==
  \E p \in DOMAIN projects, u, v, a \in Users :
    /\ OnlyMember(u, p) /\ p \in Listed(getProjects(u))
    /\ GetProject(u, p, 0).status = 200
    /\ Outsider(v, p) /\ p \notin Listed(getProjects(v))
    /\ GetProject(v, p, 0).status = 403
    /\ IsAdmin(a) /\ p \notin Listed(getProjects(a))
    /\ GetProject(a, p, 0).status = 200

\* User u is refused the read of project p and the read, creation, update
\* and deletion of its boards.
DeniedProjectAndBoards(u, p) ==
  /\ GetProject(u, p, 0) = Resp(403, GetProject(u, p, 0).calls, Same)
  /\ GetBoards(u, p, 0) = Resp(403, GetBoards(u, p, 0).calls, Same)
  /\ \A id \in FreeBoardIds :
       PostBoard(u, p, [valid |-> TRUE], id, 0) =
         Resp(403, PostBoard(u, p, [valid |-> TRUE], id, 0).calls, Same)
  /\ \A b \in BoardsOf({p}) :
       /\ GetTasks(u, b, 0).status = 403
       /\ \A body \in BoardPatchBodies :
            PatchBoard(u, b, body, 0) = Resp(403, PatchBoard(u, b, body, 0).calls, Same)
       /\ DeleteBoard(u, b, 0) = Resp(403, DeleteBoard(u, b, 0).calls, Same)

\* C26: a step that takes membership rows of user u for project p away while
\* p stays takes all of them, leaves the other rows as they were, and leaves
\* u, unless admin or owner of p, refused on p and its boards; and as long as
\* such a u holds no row for p, u stays refused.
C26_RemovalRevokesAccess ==
  /\ [](\A p \in DOMAIN projects, u \in Users :
          Outsider(u, p) => DeniedProjectAndBoards(u, p))
  /\ [][\A p \in DOMAIN projects \cap DOMAIN projects', u \in Users :
          Len(RowsOf(u, p)') < Len(RowsOf(u, p)) =>
            /\ RowsOf(u, p)' = <<>>
            /\ members' = SelectSeq(members,
                             LAMBDA m : ~(m.projectId = p /\ m.userId = u))
            /\ ~Privileged(u, p)' => DeniedProjectAndBoards(u, p)']_vars

\* A project with a board and two membership rows of a user who is neither
\* admin nor owner: the user manages the board until the owner removes them.
C26_Witness ==
  \E p \in DOMAIN projects, b \in DOMAIN boards, u \in Users :
    /\ boards[b].projectId = p
    /\ ~Privileged(u, p)
    /\ Len(RowsOf(u, p)) = 2
    /\ GetBoards(u, p, 0).status = 200
    /\ DeleteMember(projects[p].ownerId, p, u, 0).status = 204
    /\ DeleteMember(projects[p].ownerId, p, u, 0).store.members = <<>>

\* The membership rows of project p in a table of rows.
RowsOfProject(rows, p) == SelectSeq(rows, LAMBDA m : m.projectId = p)

\* C27: no request of a caller who is neither admin nor owner of project p,
\* and none without identity, changes the membership rows of p or the owner
\* of p, or deletes p: such callers gain no row, no higher role and no
\* ownership, so every step that changes them is a request of the owner or
\* of an admin.
C27_NoEscalation ==
  \A p \in DOMAIN projects, u \in Callers, f \in FailPoints :
    (u = NoUser \/ ~Privileged(u, p)) =>
      \A r \in Responses(u, f) :
        /\ p \in DOMAIN r.store.projects
        /\ r.store.projects[p].ownerId = projects[p].ownerId
        /\ RowsOfProject(r.store.members, p) = RowsOfProject(members, p)

\* A member-role member and a manager-role member of a project, neither admin
\* nor owner: each asks for an owner-role row for themself, for the removal
\* of the other's row and for the ownership of the project, and is refused;
\* the manager still updates a board of the project.
C27_Witness ==
  \E p \in DOMAIN projects, b \in DOMAIN boards, u, v \in Users :
    /\ boards[b].projectId = p
    /\ u # v /\ ~Privileged(u, p) /\ ~Privileged(v, p)
    /\ RowsOf(u, p) = <<[projectId |-> p, userId |-> u, role |-> "member"]>>
    /\ RowsOf(v, p) = <<[projectId |-> p, userId |-> v, role |-> "manager"]>>
    /\ \A w \in {u, v} :
         /\ PostMember(w, p, [userId |-> {w}, role |-> {"owner"}], 0).status = 403
         /\ DeleteMember(w, p, CHOOSE x \in {u, v} : x # w, 0).status = 403
         /\ PatchProject(w, p, [ownerId |-> {w}], 0).status = 403
    /\ PatchBoard(v, b, [projectId |-> {}], 0).status = 200

\* C28: no step moves a board to another project or a task to another board:
\* a board that exists before and after a step keeps its projectId, and a
\* task that exists before and after a step keeps its boardId.
C28_UpdatesKeepParent ==
  [][/\ \A b \in DOMAIN boards \cap DOMAIN boards' :
          boards'[b].projectId = boards[b].projectId
     /\ \A t \in DOMAIN tasks \cap DOMAIN tasks' :
          tasks'[t].boardId = tasks[t].boardId]_vars

\* C29: when an update request that passed its checks runs its storage update
\* after the project, board or task it updates was deleted, the request
\* answers 404 and the tables stay as they were, the deleted row still
\* missing; and no step of an update stores a row that was not stored.
C29_RacedUpdateNotFound ==
  [][/\ \A req \in inflight \ inflight' :
          ~TargetStored(req) =>
            /\ reply' = {[kind |-> req.kind, id |-> req.id, status |-> 404]}
            /\ ~TargetStored(req)'
            /\ <<projects, boards, tasks, members>>' = <<projects, boards, tasks, members>>
     /\ DOMAIN projects' \subseteq DOMAIN projects
     /\ DOMAIN boards' \subseteq DOMAIN boards
     /\ DOMAIN tasks' \subseteq DOMAIN tasks]_vars

\* A board update that passed its checks answered 404 after the board was
\* deleted, the board is still missing, and a task update that passed its
\* checks is still in flight with its task deleted by the cascade.
C29_Witness ==
  /\ \E r \in reply : r.kind = "board" /\ r.status = 404 /\ ~HasBoard(r.id)
  /\ \E req \in inflight : req.kind = "task" /\ ~HasTask(req.id)

\* C30: a drop on column c, when a task is dragged whose status as dragged
\* differs from c, issues one update of that task with status c and nothing
\* else; a drop with no task dragged, or on the column the dragged task has,
\* issues none; after a drop and after a drag end no task is dragged, and a
\* drag end issues no update.
C30_DropIssuesOneUpdate ==
  /\ [][\A c \in Columns :
          handleDrop(c) =>
            /\ (draggedTask # {} /\ Val(draggedTask).status # c) =>
                 pending' = Append(pending, [taskId |-> Val(draggedTask).id,
                                             updates |-> [status |-> c]])
            /\ (draggedTask = {} \/ Val(draggedTask).status = c) => pending' = pending
            /\ draggedTask' = {}
            /\ kanbanTasks' = kanbanTasks]_vars
  /\ [][handleDragEnd => draggedTask' = {} /\ pending' = pending]_vars

\* A card was dropped on another column and then on a third: two updates of
\* the card are issued and not yet answered, the card is still shown in its
\* first column, and no task is dragged.
C30_Witness ==
  /\ draggedTask = {}
  /\ Len(pending) = 2
  /\ pending[1].taskId = pending[2].taskId
  /\ pending[1].updates.status # pending[2].updates.status
  /\ kanbanTasks[pending[1].taskId] \notin {pending[1].updates.status,
                                            pending[2].updates.status}

====
